---- MODULE Spec2Model ----
(***************************************************************************)
(* swift-bridge-ir: the declaration-block parser (ForeignModParser) and    *)
(* the Option<T> return glue.                                              *)
(*                                                                         *)
(* A module is a sequence of `extern "..." { ... }` blocks.  The caller    *)
(* hands the blocks one by one to ForeignModParser::parse, which mutates   *)
(* the four collections it borrows (errors, all_type_declarations,         *)
(* functions, maybe_undeclared_types); after the last block the caller     *)
(* turns the still unresolved names into UndeclaredType diagnostics.       *)
(***************************************************************************)
EXTENDS Integers, Sequences, FiniteSets, TLC

VARIABLES
    errors,                 \* ParseErrors: ordered, append only
    all_type_declarations,  \* TypeDeclarations: name -> ForeignBridgedType
    functions,              \* Vec<ParsedExternFn>
    maybe_undeclared_types, \* Vec<(String, Span)>
    module,                 \* the blocks handed to parse so far, in order
    pc,                     \* "parsing" | "done" | "panicked"
    OPTION_RETURN,          \* the process-wide presence flag
    threads,                \* per client thread: position and locals
    bridge                  \* one Result<T,E> being parsed, named and converted

vars == << errors, all_type_declarations, functions, maybe_undeclared_types,
           module, pc, OPTION_RETURN, threads, bridge >>

parserVars == << errors, all_type_declarations, functions,
                 maybe_undeclared_types, module, pc >>

optionVars == << OPTION_RETURN, threads >>

bridgeVars == << bridge >>

-----------------------------------------------------------------------------
(* Bounds of the model.                                                    *)

MaxBlocks == 2
MaxItems == 3
MaxThreads == 2
MaxCalls == 2
MaxDepth == 1
MaxHandles == 2

-----------------------------------------------------------------------------
(* Option<T> of the source: None is the empty tuple, Some(v) is <<v>>.     *)

None == << >>
Some(v) == << v >>
IsSome(o) == o # None
Unwrap(o) == o[1]

-----------------------------------------------------------------------------
(* Syntax of the input (syn's ItemForeignMod and what hangs below it).     *)

\* syn::Type: Path `Foo`, Reference `&Foo` / `&mut Foo`, Ptr `*const Foo`,
\* Tuple `()` (any other kind of type).
TyPath(n) == [kind |-> "Path", name |-> n]
TyRef(n) == [kind |-> "Reference", name |-> n]
TyPtr(n) == [kind |-> "Ptr", name |-> n]
TyTuple == [kind |-> "Tuple", name |-> "()"]

\* to_token_stream().to_string() of a whole type.
TokenString(ty) ==
    CASE ty.kind = "Path" -> ty.name
      [] ty.kind = "Reference" -> "& " \o ty.name
      [] ty.kind = "Ptr" -> "* const " \o ty.name
      [] OTHER -> "()"

\* syn::FnArg: Receiver (self, &self, &mut self) or Typed (pat: ty).
Receiver == [kind |-> "Receiver", pat |-> "self", ty |-> TyPath("Self")]
Typed(p, t) == [kind |-> "Typed", pat |-> p, ty |-> t]

\* FunctionAttributes, as decoded from #[swift_bridge(...)].
Attrs(init, assoc) ==
    [is_initializer |-> init, associated_to |-> assoc, swift_name |-> None]
NoAttrs == Attrs(FALSE, None)

\* syn::ForeignItemFn: name, attributes, inputs, output (None: no `->`).
Fn(n, a, ins, out) ==
    [kind |-> "Fn", ident |-> n, attrs |-> a, inputs |-> ins, output |-> out]
\* syn::ForeignItemType
TypeItem(n) == [kind |-> "Type", ident |-> n]
\* any other ForeignItem (static, macro)
StaticItem(n) == [kind |-> "Static", ident |-> n]

ForeignMod(abi, items) == [abi |-> abi, items |-> items]

-----------------------------------------------------------------------------
(* Built-in type catalog.                                                  *)

BuiltInNames ==
    {"u8", "i8", "u16", "i16", "u32", "i32", "u64", "i64", "usize", "isize",
     "f32", "f64", "bool", "String"}

\* BuiltInType::with_str
with_str(s) == IF s \in BuiltInNames THEN Some(s) ELSE None

\* BuiltInType::new_with_type: a path, or the pointee of a reference or of a
\* pointer, that names a catalog entry.
new_with_type(ty) ==
    IF ty.kind \in {"Path", "Reference", "Ptr"} THEN with_str(ty.name) ELSE None

-----------------------------------------------------------------------------
(* Diagnostics (ParseError).                                               *)

AbiNameMissing == [kind |-> "AbiNameMissing"]
AbiNameInvalid(n) == [kind |-> "AbiNameInvalid", abi_name |-> n]
DeclaredBuiltInType(n) == [kind |-> "DeclaredBuiltInType", ty |-> n]
AmbiguousSelf(f) == [kind |-> "AmbiguousSelf", self_ |-> f]
UndeclaredType(n) == [kind |-> "UndeclaredType", ty |-> n]

-----------------------------------------------------------------------------
(* ForeignModParser.  A parser state p is the record of what parse borrows *)
(* and owns while it runs: errors, all_type_declarations, functions,       *)
(* maybe_undeclared_types, local_type_declarations, and panicked (an       *)
(* unwrap() of None or a todo!() was reached: the call unwinds).           *)

OpaqueForeignType(n, lang) == [ty |-> n, host_lang |-> lang]

\* HashMap::insert: the later entry replaces the earlier one.
Insert(m, k, v) == [x \in DOMAIN m \cup {k} |-> IF x = k THEN v ELSE m[x]]
\* HashMap::get
Get(m, k) == IF k \in DOMAIN m THEN Some(m[k]) ELSE None

\* Number of occurrences of e in a Vec.
Count(seq, e) == Cardinality({i \in 1..Len(seq) : seq[i] = e})

Panic(p) == [p EXCEPT !.panicked = TRUE]

\* The comparator of sort_by: it looks at its first argument only.
IsLess(a, b) == a.kind = "Type"

\* slice::sort_by on a short slice: insertion sort, each element moved left
\* while it compares Less than its left neighbour.
RECURSIVE InsertTail(_, _)
InsertTail(v, j) ==
    IF j > 1 /\ IsLess(v[j], v[j - 1])
    THEN InsertTail([v EXCEPT ![j - 1] = v[j], ![j] = v[j - 1]], j - 1)
    ELSE v

RECURSIVE SortFrom(_, _)
SortFrom(v, i) == IF i > Len(v) THEN v ELSE SortFrom(InsertTail(v, i), i + 1)

\* sort_by that leaves the items in source order.
sort_by_source_order(items) == items

sort_by(items) == SortFrom(items, 2)

\* maybe_push_undeclared_ty that skips a name already pending.
maybe_push_undeclared_ty_once(p, ty) ==
    IF ty.kind \notin {"Path", "Reference", "Ptr"}
    THEN Panic(p)
    ELSE IF /\ ty.name \notin DOMAIN p.all_type_declarations
            /\ new_with_type(ty) = None
            /\ Count(p.maybe_undeclared_types, ty.name) = 0
         THEN [p EXCEPT !.maybe_undeclared_types = Append(@, ty.name)]
         ELSE p

maybe_push_undeclared_ty(p, ty) ==
    IF ty.kind \notin {"Path", "Reference", "Ptr"}
    THEN Panic(p)
    ELSE IF /\ ty.name \notin DOMAIN p.all_type_declarations
            /\ new_with_type(ty) = None
         THEN [p EXCEPT !.maybe_undeclared_types = Append(@, ty.name)]
         ELSE p

RECURSIVE PushArgs(_, _, _)
PushArgs(p, inputs, i) ==
    IF i > Len(inputs) \/ p.panicked
    THEN p
    ELSE PushArgs(IF inputs[i].kind = "Typed"
                  THEN maybe_push_undeclared_ty(p, inputs[i].ty)
                  ELSE p,
                  inputs, i + 1)

\* The `None =>` arm of get_associated_type.
AssociatedTypeNoFirst(p, func) ==
    IF IsSome(func.attrs.associated_to)
    THEN LET ty == Get(p.all_type_declarations, Unwrap(func.attrs.associated_to))
         IN  IF IsSome(ty) THEN [p |-> p, ty |-> ty]
                           ELSE [p |-> Panic(p), ty |-> None]
    ELSE IF func.attrs.is_initializer
         THEN IF func.output = None
              THEN [p |-> Panic(p), ty |-> None]
              ELSE [p |-> p,
                    ty |-> Get(p.all_type_declarations,
                               TokenString(Unwrap(func.output)))]
         ELSE [p |-> p, ty |-> None]

\* get_associated_type that infers an implicit receiver from the module-wide
\* registry instead of the block's own declarations.
get_associated_type_module_wide(p, first, func) ==
    IF first = None
    THEN AssociatedTypeNoFirst(p, func)
    ELSE LET arg == Unwrap(first) IN
         IF arg.kind = "Receiver"
         THEN IF Cardinality(DOMAIN p.all_type_declarations) = 1
              THEN LET k == CHOOSE n \in DOMAIN p.all_type_declarations : TRUE
                   IN  [p |-> p, ty |-> Some(p.all_type_declarations[k])]
              ELSE [p |-> [p EXCEPT !.errors = Append(@, AmbiguousSelf(func.ident))],
                    ty |-> None]
         ELSE IF arg.pat = "_"
              THEN [p |-> Panic(p), ty |-> None]
              ELSE IF arg.pat = "self"
                   THEN IF arg.ty.kind \notin {"Path", "Reference"}
                        THEN [p |-> Panic(p), ty |-> None]
                        ELSE LET ty == Get(p.all_type_declarations, arg.ty.name)
                             IN  IF IsSome(ty) THEN [p |-> p, ty |-> ty]
                                               ELSE [p |-> Panic(p), ty |-> None]
                   ELSE AssociatedTypeNoFirst(p, func)

\* get_associated_type: the parser state after the call and the value
\* returned.
get_associated_type(p, first, func) ==
    IF first = None
    THEN AssociatedTypeNoFirst(p, func)
    ELSE LET arg == Unwrap(first) IN
         IF arg.kind = "Receiver"
         THEN IF Cardinality(DOMAIN p.local_type_declarations) = 1
              THEN LET k == CHOOSE n \in DOMAIN p.local_type_declarations : TRUE
                   IN  [p |-> p, ty |-> Some(p.local_type_declarations[k])]
              ELSE [p |-> [p EXCEPT !.errors = Append(@, AmbiguousSelf(func.ident))],
                    ty |-> None]
         ELSE IF arg.pat = "_"
              THEN [p |-> Panic(p), ty |-> None]
              ELSE IF arg.pat = "self"
                   THEN IF arg.ty.kind \notin {"Path", "Reference"}
                        THEN [p |-> Panic(p), ty |-> None]
                        ELSE LET ty == Get(p.all_type_declarations, arg.ty.name)
                             IN  IF IsSome(ty) THEN [p |-> p, ty |-> ty]
                                               ELSE [p |-> Panic(p), ty |-> None]
                   ELSE AssociatedTypeNoFirst(p, func)

\* ParseType that registers the type in the block-local map only.
ParseType_local_only(p, foreign_ty, host_lang) ==
    LET p1 == IF IsSome(with_str(foreign_ty.ident))
              THEN [p EXCEPT !.errors = Append(@, DeclaredBuiltInType(foreign_ty.ident))]
              ELSE p
        foreign_type == OpaqueForeignType(foreign_ty.ident, host_lang)
    IN  [p1 EXCEPT
           !.local_type_declarations = Insert(@, foreign_ty.ident, foreign_type)]

\* ParseType that reports a catalog name once per block.
ParseType_report_once(p, foreign_ty, host_lang) ==
    LET p1 == IF /\ IsSome(with_str(foreign_ty.ident))
                 /\ foreign_ty.ident \notin DOMAIN p.local_type_declarations
              THEN [p EXCEPT !.errors = Append(@, DeclaredBuiltInType(foreign_ty.ident))]
              ELSE p
        foreign_type == OpaqueForeignType(foreign_ty.ident, host_lang)
    IN  [p1 EXCEPT
           !.all_type_declarations = Insert(@, foreign_ty.ident, foreign_type),
           !.local_type_declarations = Insert(@, foreign_ty.ident, foreign_type)]

\* The ForeignItem::Type arm of parse.
ParseType(p, foreign_ty, host_lang) ==
    LET p1 == IF IsSome(with_str(foreign_ty.ident))
              THEN [p EXCEPT !.errors = Append(@, DeclaredBuiltInType(foreign_ty.ident))]
              ELSE p
        foreign_type == OpaqueForeignType(foreign_ty.ident, host_lang)
    IN  [p1 EXCEPT
           !.all_type_declarations = Insert(@, foreign_ty.ident, foreign_type),
           !.local_type_declarations = Insert(@, foreign_ty.ident, foreign_type)]

\* The ForeignItem::Fn arm of parse.
ParseFn(p, func, host_lang) ==
    LET p1 == PushArgs(p, func.inputs, 1)
        p2 == IF p1.panicked \/ func.output = None
              THEN p1
              ELSE maybe_push_undeclared_ty(p1, Unwrap(func.output))
        first_input == IF Len(func.inputs) = 0 THEN None ELSE Some(func.inputs[1])
        r == get_associated_type(p2, first_input, func)
    IN  IF p2.panicked
        THEN p2
        ELSE IF r.p.panicked
             THEN r.p
             ELSE [r.p EXCEPT !.functions =
                      Append(@, [func |-> func,
                                 associated_type |-> r.ty,
                                 is_initializer |-> func.attrs.is_initializer,
                                 host_lang |-> host_lang,
                                 swift_name_override |-> func.attrs.swift_name])]

\* The `for foreign_mod_item in foreign_mod.items` loop of parse.
RECURSIVE ParseItems(_, _, _, _)
ParseItems(p, items, i, host_lang) ==
    IF i > Len(items) \/ p.panicked
    THEN p
    ELSE ParseItems(CASE items[i].kind = "Type" -> ParseType(p, items[i], host_lang)
                      [] items[i].kind = "Fn" -> ParseFn(p, items[i], host_lang)
                      [] OTHER -> p,
                    items, i + 1, host_lang)

\* parse that records the tag diagnostic and goes on to the items.
ParseResult_no_return(p, foreign_mod) ==
    IF foreign_mod.abi = None
    THEN ParseItems([p EXCEPT !.errors = Append(@, AbiNameMissing)],
                    sort_by(foreign_mod.items), 1, "Rust")
    ELSE LET abi_name == Unwrap(foreign_mod.abi) IN
         IF abi_name \notin {"Rust", "Swift"}
         THEN ParseItems([p EXCEPT !.errors = Append(@, AbiNameInvalid(abi_name))],
                         sort_by(foreign_mod.items), 1, abi_name)
         ELSE ParseItems(p, sort_by(foreign_mod.items), 1, abi_name)

\* parse whose invalid-tag arm records the diagnostic without returning.
ParseResult_invalid_falls_through(p, foreign_mod) ==
    IF foreign_mod.abi = None
    THEN [p EXCEPT !.errors = Append(@, AbiNameMissing)]
    ELSE LET abi_name == Unwrap(foreign_mod.abi) IN
         IF abi_name \notin {"Rust", "Swift"}
         THEN ParseItems([p EXCEPT !.errors = Append(@, AbiNameInvalid(abi_name))],
                         sort_by(foreign_mod.items), 1, "Rust")
         ELSE ParseItems(p, sort_by(foreign_mod.items), 1, abi_name)

\* ForeignModParser::parse as a function of the borrowed collections.
ParseResult(p, foreign_mod) ==
    IF foreign_mod.abi = None
    THEN [p EXCEPT !.errors = Append(@, AbiNameMissing)]
    ELSE LET abi_name == Unwrap(foreign_mod.abi) IN
         IF abi_name \notin {"Rust", "Swift"}
         THEN [p EXCEPT !.errors = Append(@, AbiNameInvalid(abi_name))]
         ELSE ParseItems(p, sort_by(foreign_mod.items), 1, abi_name)

Borrowed ==
    [errors |-> errors,
     all_type_declarations |-> all_type_declarations,
     functions |-> functions,
     maybe_undeclared_types |-> maybe_undeclared_types,
     local_type_declarations |-> << >>,
     panicked |-> FALSE]

-----------------------------------------------------------------------------
(* The caller of parse: one call per block, then the unresolved names.     *)

RECURSIVE SumLen(_)
SumLen(s) == IF s = << >> THEN 0 ELSE Len(Head(s).items) + SumLen(Tail(s))

\* One call of ForeignModParser::parse on the next block of the module.
parse(foreign_mod) ==
    /\ pc = "parsing"
    /\ Len(module) < MaxBlocks
    /\ SumLen(module) + Len(foreign_mod.items) <= MaxItems
    /\ LET r == ParseResult(Borrowed, foreign_mod) IN
       /\ errors' = r.errors
       /\ all_type_declarations' = r.all_type_declarations
       /\ functions' = r.functions
       /\ maybe_undeclared_types' = r.maybe_undeclared_types
       /\ pc' = IF r.panicked THEN "panicked" ELSE "parsing"
    /\ module' = Append(module, foreign_mod)
    /\ UNCHANGED << optionVars, bridgeVars >>

\* After the last block: every name still missing from the registry becomes
\* an UndeclaredType diagnostic.
RECURSIVE Unresolved(_, _)
Unresolved(names, decls) ==
    IF names = << >>
    THEN << >>
    ELSE (IF Head(names) \in DOMAIN decls
          THEN << >>
          ELSE << UndeclaredType(Head(names)) >>) \o Unresolved(Tail(names), decls)

Finish ==
    /\ pc = "parsing"
    /\ errors' = errors \o Unresolved(maybe_undeclared_types, all_type_declarations)
    /\ pc' = "done"
    /\ UNCHANGED << all_type_declarations, functions, maybe_undeclared_types,
                    module, OPTION_RETURN, threads, bridge >>

-----------------------------------------------------------------------------
(* Inputs.                                                                 *)

RECURSIVE SeqsUpTo(_, _)
SeqsUpTo(S, n) ==
    IF n = 0
    THEN {<< >>}
    ELSE LET shorter == SeqsUpTo(S, n - 1)
         IN  shorter \cup {Append(s, x) : s \in {t \in shorter : Len(t) = n - 1}, x \in S}

Blocks(abis, items) ==
    {ForeignMod(a, s) : a \in abis, s \in SeqsUpTo(items, MaxItems)}

AbiNames == {None, Some("Rust"), Some("Swift"), Some("SomeAbi")}

\* Declarations of a plain name and of a catalog name, a static and a free
\* function.
BasicItems ==
    {TypeItem("Foo"), TypeItem("u8"), StaticItem("S"),
     Fn("f", NoAttrs, << Typed("x", TyPath("u8")) >>, Some(TyPath("Foo")))}

ParserInit ==
    /\ errors = << >>
    /\ all_type_declarations = << >>
    /\ functions = << >>
    /\ maybe_undeclared_types = << >>
    /\ module = << >>
    /\ pc = "parsing"

-----------------------------------------------------------------------------
(* The glue generated for `fn some_function() -> Option<String>`.  Each    *)
(* client thread calls the exported function; the host side stores the     *)
(* presence flag and returns the payload pointer; the client side then     *)
(* asks for the flag and unwraps the pointer or yields nil.                *)

Idle == [pc |-> "idle", host |-> "none", val |-> "null", result |-> "none",
         calls |-> 0]

\* func some_function(): `let val = __swift_bridge__$some_function()` is
\* entered; super::some_function() produces Some(val) or None.
Call(t) ==
    /\ threads[t].pc = "idle"
    /\ threads[t].calls < MaxCalls
    /\ \E v \in {"Some", "None"} :
          threads' = [threads EXCEPT ![t] = [@ EXCEPT !.pc = "host", !.host = v]]
    /\ UNCHANGED << OPTION_RETURN, parserVars, bridgeVars >>

\* swift_bridge::option::_set_option_return
_set_option_return(is_some) == OPTION_RETURN' = is_some

\* __swift_bridge__some_function: set the flag, return the boxed string or
\* the null pointer.
HostReturn(t) ==
    /\ threads[t].pc = "host"
    /\ _set_option_return(threads[t].host = "Some")
    /\ threads' = [threads EXCEPT ![t] =
                      [@ EXCEPT !.pc = "returned",
                                !.val = IF threads[t].host = "Some"
                                        THEN "ptr" ELSE "null"]]
    /\ UNCHANGED << parserVars, bridgeVars >>

\* _get_option_return
_get_option_return == OPTION_RETURN

\* `if _get_option_return() { return RustString(ptr: val!) } else { return nil }`
ClientRead(t) ==
    /\ threads[t].pc = "returned"
    /\ threads' = [threads EXCEPT ![t] =
                      IF _get_option_return
                      THEN IF threads[t].val = "null"
                           THEN [@ EXCEPT !.pc = "crashed"]
                           ELSE [@ EXCEPT !.pc = "idle", !.result = "some",
                                          !.calls = @ + 1]
                      ELSE [@ EXCEPT !.pc = "idle", !.result = "nil",
                                     !.calls = @ + 1]]
    /\ UNCHANGED << OPTION_RETURN, parserVars, bridgeVars >>

-----------------------------------------------------------------------------
(* Result<T, E> bridging (BuiltInResult).                                  *)
(*                                                                         *)
(* A token string is the sequence of its tokens; proc_macro2 prints them   *)
(* separated by single spaces, so "Result < () , () >" is                  *)
(* << "Result", "<", "()", ",", "()", ">" >>.                              *)

\* Source types: `()`, a path, `Result<A, B>`.
SrcUnit == [kind |-> "Unit"]
SrcPath(n) == [kind |-> "Path", name |-> n]
SrcResult(a, b) == [kind |-> "Result", ok |-> a, err |-> b]

\* quote! { .. }.to_token_stream().to_string()
RECURSIVE TokensOf(_)
TokensOf(ty) ==
    CASE ty.kind = "Unit" -> << "()" >>
      [] ty.kind = "Path" -> << ty.name >>
      [] OTHER -> << "Result", "<" >> \o TokensOf(ty.ok) \o << "," >>
                     \o TokensOf(ty.err) \o << ">" >>

\* Bridgeable shapes.
NullShape == [kind |-> "Null"]
StdLibShape(n) == [kind |-> "StdLib", name |-> n]
OpaqueShape(n) == [kind |-> "Opaque", name |-> n]
\* struct BuiltInResult { ok_ty, err_ty }
BuiltInResult(ok, err) == [kind |-> "Result", ok_ty |-> ok, err_ty |-> err]

\* BridgeableType::is_null
is_null(shape) == shape.kind = "Null"

\* str::trim_start_matches("Result < "): every repetition of the prefix.
RECURSIVE trim_start_matches(_)
trim_start_matches(toks) ==
    IF Len(toks) >= 3 /\ toks[1] = "Result" /\ toks[2] = "<"
    THEN trim_start_matches(SubSeq(toks, 3, Len(toks)))
    ELSE toks

\* str::trim_end_matches(" >"): every repetition of the suffix.
RECURSIVE trim_end_matches(_)
trim_end_matches(toks) ==
    IF Len(toks) >= 2 /\ toks[Len(toks)] = ">"
    THEN trim_end_matches(SubSeq(toks, 1, Len(toks) - 1))
    ELSE toks

\* str::split(","): the pieces between the commas, each trimmed.
RECURSIVE split(_, _)
split(toks, piece) ==
    IF toks = << >>
    THEN << piece >>
    ELSE IF Head(toks) = ","
         THEN << piece >> \o split(Tail(toks), << >>)
         ELSE split(Tail(toks), Append(piece, Head(toks)))

RECURSIVE new_with_str(_, _)
RECURSIVE from_str_tokens(_, _)

\* BridgedType::new_with_str
new_with_str(toks, types) ==
    IF toks = << "()" >>
    THEN Some(NullShape)
    ELSE IF Len(toks) = 1
         THEN IF toks[1] \in BuiltInNames
              THEN Some(StdLibShape(toks[1]))
              ELSE IF toks[1] \in types THEN Some(OpaqueShape(toks[1])) ELSE None
         ELSE IF Len(toks) >= 2 /\ toks[1] = "Result" /\ toks[2] = "<"
              THEN from_str_tokens(toks, types)
              ELSE None

\* BuiltInResult::from_str_tokens
from_str_tokens(string, types) ==
    LET ok_and_err == split(trim_end_matches(trim_start_matches(string)), << >>)
    IN  IF Len(ok_and_err) < 2
        THEN None
        ELSE LET ok == new_with_str(ok_and_err[1], types)
                 err == new_with_str(ok_and_err[2], types)
             IN  IF ok = None \/ err = None
                 THEN None
                 ELSE Some(BuiltInResult(Unwrap(ok), Unwrap(err)))

RECURSIVE to_c_type(_)
RECURSIVE to_c(_)

\* BridgeableType::to_c_type
to_c_type(shape) ==
    CASE shape.kind = "Null" -> "void"
      [] shape.kind = "Opaque" -> "void*"
      [] shape.kind = "StdLib" -> shape.name
      [] OTHER -> to_c(shape)

\* to_c that names the struct after the Ok branch alone.
to_c_ok_twice(r) ==
    "struct __private__Result" \o to_c_type(r.ok_ty) \o "And" \o to_c_type(r.ok_ty)

\* BuiltInResult::to_c
to_c(r) ==
    "struct __private__Result" \o to_c_type(r.ok_ty) \o "And" \o to_c_type(r.err_ty)

\* `type_name` of convert_swift_expression_to_ffi_compatible
type_name(r) ==
    "__private__Result" \o to_c_type(r.ok_ty) \o "And" \o to_c_type(r.err_ty)

\* Values: the unit value and the opaque objects; a payload is the null
\* pointer (None) or the pointer to an object (Some).
UnitValue == [kind |-> "unit", id |-> 0]
Object(h) == [kind |-> "object", id |-> h]
Ok(v) == [tag |-> "Ok", val |-> v]
Err(v) == [tag |-> "Err", val |-> v]

ValuesOf(shape) ==
    IF is_null(shape) THEN {UnitValue} ELSE {Object(h) : h \in 1..MaxHandles}

\* BridgeableType::convert_swift_expression_to_ffi_type of a branch: nothing
\* for `()`, the pointer held by the class instance for an opaque type.
convert_swift_expression_to_ffi_type(shape, v) ==
    IF is_null(shape) THEN None ELSE Some(v.id)

\* BridgeableType::convert_ffi_result_ok_value_to_rust_value and
\* convert_ffi_result_err_value_to_rust_value of a branch: `()`, or the
\* object behind ok_or_err.
convert_ffi_result_value_to_rust_value(shape, expression) ==
    IF is_null(shape) THEN UnitValue ELSE Object(Unwrap(expression.ok_or_err))

\* BuiltInResult::convert_swift_expression_to_ffi_compatible
convert_swift_expression_to_ffi_compatible(r, val) ==
    IF val.tag = "Ok"
    THEN [type_name |-> type_name(r), is_ok |-> TRUE,
          ok_or_err |-> convert_swift_expression_to_ffi_type(r.ok_ty, val.val)]
    ELSE [type_name |-> type_name(r), is_ok |-> FALSE,
          ok_or_err |-> convert_swift_expression_to_ffi_type(r.err_ty, val.val)]

\* convert_ffi_value_to_rust_value that converts both branches as the Ok
\* type.
convert_ffi_value_to_rust_value_ok_twice(r, expression) ==
    IF expression.is_ok
    THEN Ok(convert_ffi_result_value_to_rust_value(r.ok_ty, expression))
    ELSE Err(convert_ffi_result_value_to_rust_value(r.ok_ty, expression))

\* BuiltInResult::convert_ffi_value_to_rust_value
convert_ffi_value_to_rust_value(r, expression) ==
    IF expression.is_ok
    THEN Ok(convert_ffi_result_value_to_rust_value(r.ok_ty, expression))
    ELSE Err(convert_ffi_result_value_to_rust_value(r.err_ty, expression))

\* BuiltInResult::convert_rust_expression_to_ffi_type: the branch is kept
\* and the value handed on as it is.
convert_rust_expression_to_ffi_type(r, expression) ==
    IF expression.tag = "Ok"
    THEN [variant |-> "Ok", val |-> expression.val]
    ELSE [variant |-> "Err", val |-> expression.val]

\* Types declared by the module (`types`).
DeclaredTypes == {"Foo"}

RECURSIVE SrcTypes(_)
SrcTypes(depth) ==
    IF depth = 0
    THEN {SrcUnit, SrcPath("Foo"), SrcPath("Bar")}
    ELSE LET inner == SrcTypes(depth - 1)
         IN  inner \cup {SrcResult(a, b) : a \in inner, b \in inner}

RECURSIVE Shapes(_)
Shapes(depth) ==
    IF depth = 0
    THEN {NullShape, OpaqueShape("Foo")}
    ELSE LET inner == Shapes(depth - 1)
         IN  inner \cup {BuiltInResult(a, b) : a \in inner, b \in inner}

ResultShapes == {BuiltInResult(a, b) : a \in Shapes(MaxDepth), b \in Shapes(MaxDepth)}

NoValue == Ok(UnitValue)
NoFfi == [type_name |-> "", is_ok |-> FALSE, ok_or_err |-> None]

BridgeOf(phase, src, desc) ==
    [phase |-> phase, src |-> src, string |-> TokensOf(src), desc |-> desc,
     value |-> NoValue, ffi |-> NoFfi, rust |-> NoValue,
     out |-> [variant |-> "", val |-> UnitValue], header |-> ""]

BridgeIdle == bridge = BridgeOf("idle", SrcUnit, None)

\* A type `Result<A, B>` as written in a signature, or a descriptor.
BridgeInputs ==
    {BridgeOf("tokens", SrcResult(a, b), None) :
        a \in SrcTypes(MaxDepth), b \in SrcTypes(MaxDepth)}
    \cup {BridgeOf("desc", SrcUnit, Some(r)) : r \in ResultShapes}

\* BuiltInResult::from_str_tokens on the printed type.
FromStrTokens ==
    /\ bridge.phase = "tokens"
    /\ LET d == from_str_tokens(bridge.string, DeclaredTypes)
       IN  bridge' = [bridge EXCEPT !.desc = d,
                                    !.phase = IF d = None THEN "rejected" ELSE "desc"]
    /\ UNCHANGED << parserVars, optionVars >>

\* BuiltInResult::to_c, and the record name the client side uses.
ToC ==
    /\ bridge.phase = "desc"
    /\ bridge' = [bridge EXCEPT !.header = to_c(Unwrap(bridge.desc)),
                                !.phase = "header"]
    /\ UNCHANGED << parserVars, optionVars >>

Convertible(shape) == shape.kind \in {"Null", "Opaque"}

\* The client passes a RustResult value: Swift value to ABI record.
SwiftToFfi ==
    /\ bridge.phase \in {"desc", "header"}
    /\ LET r == Unwrap(bridge.desc) IN
       /\ Convertible(r.ok_ty) /\ Convertible(r.err_ty)
       /\ \E v \in {Ok(x) : x \in ValuesOf(r.ok_ty)} \cup {Err(x) : x \in ValuesOf(r.err_ty)} :
             bridge' = [bridge EXCEPT
                          !.value = v,
                          !.ffi = convert_swift_expression_to_ffi_compatible(r, v),
                          !.phase = "ffi"]
    /\ UNCHANGED << parserVars, optionVars >>

\* The host receives the record: ABI record to Rust value.
FfiToRust ==
    /\ bridge.phase = "ffi"
    /\ bridge' = [bridge EXCEPT
                    !.rust = convert_ffi_value_to_rust_value(Unwrap(bridge.desc), bridge.ffi),
                    !.phase = "rust"]
    /\ UNCHANGED << parserVars, optionVars >>

\* The host returns the value: Rust value to the ABI side.
RustToFfi ==
    /\ bridge.phase = "rust"
    /\ bridge' = [bridge EXCEPT
                    !.out = convert_rust_expression_to_ffi_type(Unwrap(bridge.desc), bridge.rust),
                    !.phase = "out"]
    /\ UNCHANGED << parserVars, optionVars >>

-----------------------------------------------------------------------------
(* Specifications.                                                         *)

OptionIdle ==
    /\ OPTION_RETURN = FALSE
    /\ threads = [t \in 1..MaxThreads |-> Idle]

Init == ParserInit /\ OptionIdle /\ BridgeIdle

\* Blocks of every tag, declaring plain and catalog names.
Next ==
    \/ \E b \in Blocks(AbiNames, BasicItems) : parse(b)
    \/ Finish

Spec == Init /\ [][Next]_vars

\* Methods with an implicit receiver.
SelfItems ==
    {TypeItem("Foo"), TypeItem("Bar"),
     Fn("a", NoAttrs, << Receiver >>, None),
     Fn("g", NoAttrs, << >>, None)}

NextSelf ==
    \/ \E b \in Blocks({Some("Rust"), Some("Swift")}, SelfItems) : parse(b)
    \/ Finish

SpecSelf == Init /\ [][NextSelf]_vars

\* Functions that name declared, undeclared and catalog types.
UndeclaredItems ==
    {TypeItem("Foo"),
     Fn("a", NoAttrs, << Typed("bar", TyPath("Foo")) >>, None),
     Fn("d", NoAttrs, << Typed("multiple", TyPath("Bar")),
                         Typed("args", TyRef("Bar")) >>, None),
     Fn("r", NoAttrs, << Typed("x", TyPath("u8")) >>, Some(TyPtr("Foo"))),
     Fn("c", NoAttrs, << >>, Some(TyPtr("Bar")))}

NextUndeclared ==
    \/ \E b \in Blocks({Some("Rust"), None}, UndeclaredItems) : parse(b)
    \/ Finish

SpecUndeclared == Init /\ [][NextUndeclared]_vars

\* Initializers, explicit receivers and associated_to.
AssocItems ==
    {TypeItem("Foo"),
     Fn("make", Attrs(TRUE, None), << >>, Some(TyPath("Foo"))),
     Fn("new", Attrs(TRUE, None), << Typed("bazz", TyPath("u8")) >>,
        Some(TyPath("u8"))),
     Fn("shared", Attrs(TRUE, None), << >>, Some(TyRef("Foo"))),
     Fn("m", NoAttrs, << Typed("self", TyRef("Foo")) >>, None),
     Fn("bar", Attrs(FALSE, Some("Foo")), << >>, None)}

NextAssoc ==
    \/ \E b \in Blocks({Some("Rust")}, AssocItems) : parse(b)
    \/ Finish

SpecAssoc == Init /\ [][NextAssoc]_vars

\* One type and the three ways a function can be tied to it, in every
\* source order.
OrderItems ==
    {TypeItem("Foo"),
     Fn("a", NoAttrs, << Receiver >>, None),
     Fn("m", NoAttrs, << Typed("self", TyPath("Foo")) >>, None),
     Fn("bar", Attrs(FALSE, Some("Foo")), << >>, None)}

NextOrder ==
    \/ \E b \in Blocks({Some("Rust")}, OrderItems) : parse(b)
    \/ Finish

SpecOrder == Init /\ [][NextOrder]_vars

\* Accepted and rejected blocks around a type and a function that names it.
FrameItems ==
    {TypeItem("Foo"), TypeItem("u8"),
     Fn("f", NoAttrs, << Typed("x", TyRef("Foo")) >>, Some(TyPath("Bar")))}

NextFrame ==
    \/ \E b \in Blocks({None, Some("SomeAbi"), Some("Rust")}, FrameItems) : parse(b)
    \/ Finish

SpecFrame == Init /\ [][NextFrame]_vars

\* Result<T, E>: parsing the printed type, naming the struct, converting.
InitBridge == ParserInit /\ OptionIdle /\ bridge \in BridgeInputs

NextBridge == FromStrTokens \/ ToC \/ SwiftToFfi \/ FfiToRust \/ RustToFfi

SpecBridge == InitBridge /\ [][NextBridge]_vars

\* Client threads calling the Option-returning function.
NextOption ==
    \E t \in 1..MaxThreads : Call(t) \/ HostReturn(t) \/ ClientRead(t)

SpecOption == Init /\ [][NextOption]_vars

-----------------------------------------------------------------------------
(* Vocabulary of the properties: what the module handed to the parser      *)
(* declares and references, read off the input alone.                      *)

ValidBlock(b) == b.abi \in {Some("Rust"), Some("Swift")}

CountKind(seq, k) == Cardinality({i \in 1..Len(seq) : seq[i].kind = k})

ItemsOfKind(b, k) == SelectSeq(b.items, LAMBDA it : it.kind = k)

\* Names declared by the `type` items of a block.
TypeNamesOf(b) == {b.items[i].ident : i \in {j \in 1..Len(b.items) : b.items[j].kind = "Type"}}

\* Names declared by the accepted blocks of the module.
DeclaredNames == UNION {TypeNamesOf(module[i]) : i \in {j \in 1..Len(module) : ValidBlock(module[j])}}

\* The function declarations of the accepted blocks, in block order and in
\* source order within a block, each with the index of its block.
RECURSIVE FnSites(_)
FnSites(i) ==
    IF i > Len(module)
    THEN << >>
    ELSE (IF ValidBlock(module[i])
          THEN LET fs == ItemsOfKind(module[i], "Fn")
               IN  [k \in 1..Len(fs) |-> [block |-> i, func |-> fs[k]]]
          ELSE << >>) \o FnSites(i + 1)

\* The type names a function refers to: typed parameters, then return type.
RefsOf(func) ==
    LET typed == SelectSeq(func.inputs, LAMBDA a : a.kind = "Typed")
    IN  [k \in 1..Len(typed) |-> typed[k].ty.name]
        \o (IF func.output = None THEN << >> ELSE << Unwrap(func.output).name >>)

RECURSIVE AllRefs(_, _)
AllRefs(sites, i) ==
    IF i > Len(sites) THEN << >> ELSE RefsOf(sites[i].func) \o AllRefs(sites, i + 1)

HasReceiver(func) == Len(func.inputs) > 0 /\ func.inputs[1].kind = "Receiver"

-----------------------------------------------------------------------------
(* Properties.                                                             *)

\* C1: every block without a language tag has appended exactly one
\* AbiNameMissing, every block with a tag other than "Rust" and "Swift"
\* exactly one AbiNameInvalid carrying that tag, and the function records
\* are those of the accepted blocks only: a rejected block contributes none,
\* whatever items it holds.
C1_RejectedBlock ==
    /\ CountKind(errors, "AbiNameMissing")
          = Cardinality({i \in 1..Len(module) : module[i].abi = None})
    /\ \A a \in AbiNames \ {None, Some("Rust"), Some("Swift")} :
          Count(errors, AbiNameInvalid(Unwrap(a)))
             = Cardinality({i \in 1..Len(module) : module[i].abi = a})
    /\ CountKind(errors, "AbiNameInvalid")
          = Cardinality({i \in 1..Len(module) : module[i].abi # None /\ ~ValidBlock(module[i])})
    /\ Len(functions) = Len(FnSites(1))
    /\ \A k \in 1..Len(functions) : functions[k].func = FnSites(1)[k].func

C1_Witness ==
    /\ \E i \in 1..Len(module) :
          module[i].abi = None /\ Len(ItemsOfKind(module[i], "Fn")) > 0
    /\ \E i \in 1..Len(module) :
          module[i].abi = Some("SomeAbi") /\ Len(ItemsOfKind(module[i], "Fn")) > 0
    /\ Len(errors) = 2
    /\ functions = << >>

\* C2: a function whose first parameter is an implicit receiver gets, when
\* its own block declares exactly one type, that type as associated_type
\* (whatever the other blocks declare) and no AmbiguousSelf; when its block
\* declares more than one type it gets associated_type none and one
\* AmbiguousSelf diagnostic.
C2_ImplicitReceiver ==
    LET sites == FnSites(1)
        recv == {k \in 1..Len(sites) : HasReceiver(sites[k].func)}
        types(k) == TypeNamesOf(module[sites[k].block])
    IN  /\ Len(functions) = Len(sites)
        /\ \A k \in recv :
              /\ functions[k].func = sites[k].func
              /\ Cardinality(types(k)) = 1 =>
                    \E n \in types(k) :
                       functions[k].associated_type
                          = Some(OpaqueForeignType(n, Unwrap(module[sites[k].block].abi)))
              /\ Cardinality(types(k)) > 1 => functions[k].associated_type = None
        /\ CountKind(errors, "AmbiguousSelf")
              = Cardinality({k \in recv : Cardinality(types(k)) # 1})
        /\ (\A k \in recv : Cardinality(types(k)) = 1) => errors = << >>

C2_Witness ==
    /\ Len(module) = 2
    /\ TypeNamesOf(module[1]) = {"Bar"}
    /\ TypeNamesOf(module[2]) = {"Foo"}
    /\ Len(functions) = 1
    /\ HasReceiver(functions[1].func)
    /\ functions[1].associated_type = Some(OpaqueForeignType("Foo", "Swift"))
    /\ errors = << >>

C2_WitnessAmbiguous ==
    /\ Len(module) = 1
    /\ TypeNamesOf(module[1]) = {"Foo", "Bar"}
    /\ Len(functions) = 1
    /\ functions[1].associated_type = None
    /\ CountKind(errors, "AmbiguousSelf") = 1

\* C3: when the module is parsed, the UndeclaredType diagnostics are, one
\* for one and in order, the references (typed parameters and return types,
\* by pointee name) to a name that is neither in the catalog nor declared by
\* the module: two parameters of one undeclared type give two diagnostics.
C3_UndeclaredPerReference ==
    pc = "done" =>
       LET refs == SelectSeq(AllRefs(FnSites(1), 1),
                             LAMBDA n : n \notin BuiltInNames /\ n \notin DeclaredNames)
           diags == SelectSeq(errors, LAMBDA e : e.kind = "UndeclaredType")
       IN  diags = [k \in 1..Len(refs) |-> UndeclaredType(refs[k])]

C3_Witness ==
    /\ pc = "done"
    /\ \E k \in 1..Len(functions) : functions[k].func.ident = "d"
    /\ Count(errors, UndeclaredType("Bar")) = 2

\* C4: a type declared by any accepted block of the module, before or after
\* the block of the function that names it, is never reported undeclared.
C4_AnyBlockOrder ==
    pc = "done" =>
       \A k \in 1..Len(errors) :
          errors[k].kind = "UndeclaredType" => errors[k].ty \notin DeclaredNames

C4_Witness ==
    /\ pc = "done"
    /\ Len(module) = 2
    /\ ValidBlock(module[1]) /\ ValidBlock(module[2])
    /\ "Foo" \notin TypeNamesOf(module[1])
    /\ "Foo" \in TypeNamesOf(module[2])
    /\ Count(maybe_undeclared_types, "Foo") > 0
    /\ errors = << >>

\* C5: every `type` declaration of an accepted block whose name is a
\* catalog name has appended exactly one DeclaredBuiltInType naming it, and
\* no declaration of another name has appended one.
C5_DeclaredBuiltIn ==
    LET decls(n) == {<<i, j>> \in (1..Len(module)) \X (1..MaxItems + 1) :
                        /\ ValidBlock(module[i])
                        /\ j <= Len(module[i].items)
                        /\ module[i].items[j] = TypeItem(n)}
    IN  /\ \A n \in BuiltInNames :
              Count(errors, DeclaredBuiltInType(n)) = Cardinality(decls(n))
        /\ \A k \in 1..Len(errors) :
              errors[k].kind = "DeclaredBuiltInType" => errors[k].ty \in BuiltInNames

C5_Witness ==
    /\ Len(module) = 1
    /\ module[1] = ForeignMod(Some("Rust"), << TypeItem("u8"), TypeItem("Foo"), TypeItem("u8") >>)
    /\ errors = << DeclaredBuiltInType("u8"), DeclaredBuiltInType("u8") >>

\* C6: no catalog name is ever a key of the module-wide type registry: a
\* declaration of a catalog name is rejected and not registered.
C6_NoBuiltInRegistered ==
    DOMAIN all_type_declarations \cap BuiltInNames = {}

\* C7: an initializer without receiver whose return type names a type
\* declared by an accepted block of the module, in the same block or in
\* another block before or after it, has is_initializer true and that type
\* as associated_type.
C7_InitializerAnyBlock ==
    pc = "done" =>
       \A k \in 1..Len(functions) :
          LET f == functions[k].func IN
          (/\ f.attrs.is_initializer
           /\ f.attrs.associated_to = None
           /\ f.output # None
           /\ Unwrap(f.output).kind = "Path"
           /\ Unwrap(f.output).name \in DeclaredNames \ BuiltInNames)
          => /\ functions[k].is_initializer
             /\ functions[k].associated_type # None
             /\ Unwrap(functions[k].associated_type).ty = Unwrap(f.output).name

\* C8: a module parsed without any diagnostic has no initializer record
\* whose associated_type is none.
C8_InitializerTargetReported ==
    (pc = "done" /\ errors = << >>) =>
       \A k \in 1..Len(functions) :
          functions[k].is_initializer => functions[k].associated_type # None

\* C9: parsing never aborts: a name missing from the registry in an
\* explicit receiver annotation or in associated_to leaves the parser
\* running.
C9_NeverAborts == pc # "panicked"

\* C10: a client never force-unwraps a null payload, and after each call it
\* has yielded a value exactly when the host value of that call was Some.
C10_FlagBelongsToCall ==
    \A t \in 1..MaxThreads :
       /\ threads[t].pc # "crashed"
       /\ (threads[t].pc = "idle" /\ threads[t].calls > 0) =>
             (threads[t].result = "some" <=> threads[t].host = "Some")

\* C13: in an accepted block every type declaration is processed before any
\* function, whatever the source order: a block that declares Foo anywhere
\* never makes parse unwind on `self: Foo` or `associated_to = Foo`, and
\* every function of such a block, implicit receiver included, gets Foo as
\* associated_type.
C13_TypesBeforeFunctions ==
    LET sites == FnSites(1) IN
    /\ pc = "panicked" => "Foo" \notin TypeNamesOf(module[Len(module)])
    /\ pc # "panicked" =>
          /\ Len(functions) = Len(sites)
          /\ \A k \in 1..Len(sites) :
                "Foo" \in TypeNamesOf(module[sites[k].block]) =>
                   functions[k].associated_type
                      = Some(OpaqueForeignType("Foo", "Rust"))

C13_Witness ==
    /\ pc = "done"
    /\ module = << ForeignMod(Some("Rust"),
                     << Fn("m", NoAttrs, << Typed("self", TyPath("Foo")) >>, None),
                        Fn("a", NoAttrs, << Receiver >>, None),
                        TypeItem("Foo") >>) >>
    /\ Len(functions) = 2
    /\ \A k \in 1..2 : functions[k].associated_type = Some(OpaqueForeignType("Foo", "Rust"))
    /\ errors = << >>

\* The collections after handing the blocks mods[i..] to parse one by one,
\* starting from p.
RECURSIVE Replay(_, _, _)
Replay(p, mods, i) ==
    IF i > Len(mods) \/ p.panicked
    THEN p
    ELSE Replay([ParseResult(p, mods[i]) EXCEPT !.local_type_declarations = << >>],
                mods, i + 1)

Fresh ==
    [errors |-> << >>, all_type_declarations |-> << >>, functions |-> << >>,
     maybe_undeclared_types |-> << >>, local_type_declarations |-> << >>,
     panicked |-> FALSE]

\* C14: a block rejected for its tag changes only the diagnostics: the
\* registry, the function records, the pending names and every diagnostic
\* other than the tag diagnostics are those of the module without its
\* rejected blocks.
C14_RejectedBlockFrame ==
    LET r == Replay(Fresh, SelectSeq(module, ValidBlock), 1)
        others == SelectSeq(errors,
                            LAMBDA e : e.kind \notin {"AbiNameMissing", "AbiNameInvalid"})
    IN  /\ all_type_declarations = r.all_type_declarations
        /\ functions = r.functions
        /\ maybe_undeclared_types = r.maybe_undeclared_types
        /\ others = r.errors
                     \o (IF pc = "done"
                         THEN Unresolved(r.maybe_undeclared_types, r.all_type_declarations)
                         ELSE << >>)

C14_Witness ==
    /\ pc = "done"
    /\ Len(module) = 2
    /\ module[1] = ForeignMod(Some("SomeAbi"), << TypeItem("Foo"), TypeItem("u8") >>)
    /\ ValidBlock(module[2])
    /\ Len(functions) = 1
    /\ DOMAIN all_type_declarations = {}
    /\ errors = << AbiNameInvalid("SomeAbi"), UndeclaredType("Foo"), UndeclaredType("Bar") >>


C12_DescriptorOfBranches ==
    (bridge.src.kind = "Result" /\ bridge.phase # "tokens") =>
        LET ok == new_with_str(TokensOf(bridge.src.ok), DeclaredTypes)
            err == new_with_str(TokensOf(bridge.src.err), DeclaredTypes)
        IN  bridge.desc =
               (IF ok # None /\ err # None
                THEN Some(BuiltInResult(Unwrap(ok), Unwrap(err)))
                ELSE None)

\* C15: the header struct name is decided by the ABI type names of the two
\* branches, no other pair of ABI type names gives the same name, and the
\* record named by the client-side outbound conversion is that struct.
C15_StructName ==
    bridge.phase \in {"header", "ffi", "rust", "out"} /\ bridge.header # "" =>
        LET r == Unwrap(bridge.desc) IN
        /\ \A d \in ResultShapes :
              (bridge.header = to_c(d)) <=>
                 /\ to_c_type(d.ok_ty) = to_c_type(r.ok_ty)
                 /\ to_c_type(d.err_ty) = to_c_type(r.err_ty)
        /\ bridge.phase # "header" => bridge.header = "struct " \o bridge.ffi.type_name

C15_Witness ==
    /\ bridge.phase = "ffi"
    /\ bridge.desc = Some(BuiltInResult(OpaqueShape("Foo"), NullShape))
    /\ bridge.header = "struct __private__Resultvoid*Andvoid"
    /\ bridge.ffi.type_name = "__private__Resultvoid*Andvoid"

====
